---- MODULE Spec2Model ----
(***************************************************************************)
(* A model of showboat: the markdown block parser and writer, the document *)
(* operations built on them (init, note, exec, image, pop) and the         *)
(* verifier.  A text is a sequence of one-character strings.               *)
(***************************************************************************)
EXTENDS Integers, Sequences, FiniteSets, TLC

(***************************************************************************)
(* Go string primitives used by the parser and the writer.                 *)
(***************************************************************************)
NL == "\n"
\* The carriage return character, written as a two-letter token.
CR == "CR"
\* The backtick character, written as a tilde.
BT == "~"

HasPrefix(s, p) == Len(s) >= Len(p) /\ SubSeq(s, 1, Len(p)) = p

HasSuffix(s, p) == Len(s) >= Len(p) /\ SubSeq(s, Len(s) - Len(p) + 1, Len(s)) = p

TrimPrefix(s, p) == IF HasPrefix(s, p) THEN SubSeq(s, Len(p) + 1, Len(s)) ELSE s

TrimSuffix(s, p) == IF HasSuffix(s, p) THEN SubSeq(s, 1, Len(s) - Len(p)) ELSE s

\* strings.Index: the 0-based position of the first occurrence of p, or -1.
Index(s, p) ==
    LET hits == {k \in 0..(Len(s) - Len(p)) : SubSeq(s, k + 1, k + Len(p)) = p}
    IN  IF hits = {} THEN -1 ELSE CHOOSE k \in hits : \A m \in hits : k <= m

\* s[from:] with a 0-based start.
SliceFrom(s, from) == SubSeq(s, from + 1, Len(s))

\* s[:to] with a 0-based, exclusive end.
SliceTo(s, to) == SubSeq(s, 1, to)

\* strings.Trim(s, c) for a one-character cutset.
Trim(s, c) ==
    LET keep == {k \in 1..Len(s) : s[k] # c}
    IN  IF keep = {} THEN <<>>
        ELSE LET lo == CHOOSE k \in keep : \A m \in keep : k <= m
                 hi == CHOOSE k \in keep : \A m \in keep : k >= m
             IN  SubSeq(s, lo, hi)

\* strings.Repeat for a one-character string.
Repeat(c, n) == [k \in 1..n |-> c]

\* The number of leading backticks of a line.
LeadingTicks(line) ==
    LET stops == {k \in 1..Len(line) : line[k] # BT}
    IN  IF stops = {} THEN Len(line)
        ELSE (CHOOSE k \in stops : \A m \in stops : k <= m) - 1

RECURSIVE Join(_, _)
\* strings.Join.
Join(parts, sep) ==
    IF Len(parts) = 0 THEN <<>>
    ELSE IF Len(parts) = 1 THEN parts[1]
    ELSE parts[1] \o sep \o Join(Tail(parts), sep)

RECURSIVE Split(_)
\* strings.Split(s, "\n"): n separators give n+1 parts.
Split(s) ==
    LET k == Index(s, <<NL>>)
    IN  IF k = -1 THEN <<s>>
        ELSE <<SliceTo(s, k)>> \o Split(SliceFrom(s, k + 1))

\* bufio.ScanLines drops one trailing carriage return of a line.
dropCR(line) == IF Len(line) > 0 /\ line[Len(line)] = CR THEN SubSeq(line, 1, Len(line) - 1) ELSE line

RECURSIVE ScanLines(_)
\* The lines a bufio.Scanner yields: split at "\n"; a final line without
\* a newline is yielded when it is not empty.
ScanLines(s) ==
    IF Len(s) = 0 THEN <<>>
    ELSE LET k == Index(s, <<NL>>)
         IN  IF k = -1 THEN <<dropCR(s)>>
             ELSE <<dropCR(SliceTo(s, k))>> \o ScanLines(SliceFrom(s, k + 1))

\* bufio.MaxScanTokenSize: a longer line makes scanner.Err() non-nil.
MaxScanTokenSize == 65536

ScannerErr(s) ==
    /\ Len(s) >= MaxScanTokenSize
    /\ LET ls == Split(s) IN \E k \in 1..Len(ls) : Len(ls[k]) >= MaxScanTokenSize

(***************************************************************************)
(* String literals of the format.                                          *)
(***************************************************************************)
HashSp == <<"#", " ">>
Star == "*"
Fence3 == <<BT, BT, BT>>
ByShowboat == <<" ", "b", "y", " ", "S", "h", "o", "w", "b", "o", "a", "t", " ">>
DocIDOpen == <<"<", "!", "-", "-", " ", "s", "h", "o", "w", "b", "o", "a", "t", "-", "i", "d", ":", " ">>
DocIDClose == <<" ", "-", "-", ">">>
OutputTok == <<"o", "u", "t", "p", "u", "t">>
ImageSfx == <<" ", "{", "i", "m", "a", "g", "e", "}">>
ServerSfx == <<" ", "{", "s", "e", "r", "v", "e", "r", "}">>
FilterOpen == <<" ", "{", "f", "i", "l", "t", "e", "r", "=">>
ImgOpen == <<"!", "[">>
ImgMid == <<"]", "(">>
ImgClose == <<")">>

(***************************************************************************)
(* The block types.                                                        *)
(***************************************************************************)
TitleBlock(title, ts, ver, docID) ==
    [type |-> "title", Title |-> title, Timestamp |-> ts, Version |-> ver, DocumentID |-> docID]

CommentaryBlock(text) == [type |-> "commentary", Text |-> text]

CodeBlock(lang, code, isImage, isServer, filter) ==
    [type |-> "code", Lang |-> lang, Code |-> code, IsImage |-> isImage,
     IsServer |-> isServer, Filter |-> filter]

OutputBlock(content) == [type |-> "output", Content |-> content]

ImageOutputBlock(alt, filename) == [type |-> "output-image", AltText |-> alt, Filename |-> filename]

(***************************************************************************)
(* The parser.  Line indices are 1-based here; "next" is the index of the  *)
(* first line the caller has not consumed.                                 *)
(***************************************************************************)
\* parseImageRef: the alt text and the file name of a ![alt](filename) line.
parseImageRef(line) ==
    LET start == Index(line, ImgOpen)
    IN  IF start = -1 THEN [alt |-> <<>>, filename |-> <<>>]
        ELSE LET rest == SliceFrom(line, start + 2)
                 closeBracket == Index(rest, ImgMid)
             IN  IF closeBracket = -1 THEN [alt |-> <<>>, filename |-> <<>>]
                 ELSE LET alt == SliceTo(rest, closeBracket)
                          rest2 == SliceFrom(rest, closeBracket + 2)
                          closeParen == Index(rest2, ImgClose)
                      IN  IF closeParen = -1 THEN [alt |-> alt, filename |-> <<>>]
                          ELSE [alt |-> alt, filename |-> SliceTo(rest2, closeParen)]

\* skipSeparator: consume a single blank line between blocks.
skipSeparator(lines, i) == IF i <= Len(lines) /\ lines[i] = <<>> THEN i + 1 ELSE i

\* The Title branch of Parse, entered at a "# " line.
ParseTitle(lines, i) ==
    LET title == SliceFrom(lines[i], 2)
        i1 == i + 1
        i2 == IF i1 <= Len(lines) /\ lines[i1] = <<>> THEN i1 + 1 ELSE i1
        hasDate == i2 <= Len(lines) /\ HasPrefix(lines[i2], <<Star>>) /\ HasSuffix(lines[i2], <<Star>>)
        dateline == IF hasDate THEN Trim(lines[i2], Star) ELSE <<>>
        idx == Index(dateline, ByShowboat)
        ts == IF hasDate THEN (IF idx # -1 THEN SliceTo(dateline, idx) ELSE dateline) ELSE <<>>
        ver == IF hasDate /\ idx # -1 THEN SliceFrom(dateline, idx + Len(ByShowboat)) ELSE <<>>
        i3 == IF hasDate THEN i2 + 1 ELSE i2
        hasID == i3 <= Len(lines) /\ HasPrefix(lines[i3], DocIDOpen) /\ HasSuffix(lines[i3], DocIDClose)
        docID == IF hasID THEN TrimSuffix(TrimPrefix(lines[i3], DocIDOpen), DocIDClose) ELSE <<>>
        i4 == IF hasID THEN i3 + 1 ELSE i3
    IN  [block |-> TitleBlock(title, ts, ver, docID), next |-> i4]

\* The index of the first line at or after i equal to the closing fence,
\* or Len(lines) + 1 when the fence is not closed before the end of input.
FindClose(lines, i, closingFence) ==
    LET hits == {k \in i..Len(lines) : lines[k] = closingFence}
    IN  IF hits = {} THEN Len(lines) + 1 ELSE CHOOSE k \in hits : \A m \in hits : k <= m

RECURSIVE ConcatLines(_)
\* Each line followed by a newline, as the Output branch accumulates them.
ConcatLines(ls) == IF Len(ls) = 0 THEN <<>> ELSE Head(ls) \o <<NL>> \o ConcatLines(Tail(ls))

\* The language tag and annotations of a Code fence's info string.
ParseInfo(info) ==
    LET isImage == HasSuffix(info, ImageSfx)
        lang1 == IF isImage THEN TrimSuffix(info, ImageSfx) ELSE info
        idx == Index(lang1, FilterOpen)
        suffix == IF idx # -1 THEN SliceFrom(lang1, idx + Len(FilterOpen)) ELSE <<>>
        end == IF idx # -1 THEN Index(suffix, <<"}">>) ELSE -1
        filter == IF end # -1 THEN SliceTo(suffix, end) ELSE <<>>
        lang == IF end # -1 THEN SliceTo(lang1, idx) \o SliceFrom(suffix, end + 1) ELSE lang1
    IN  [lang |-> lang, isImage |-> isImage, filter |-> filter]

\* The fenced-block branch of Parse, entered at a line starting with ```.
ParseFence(lines, i) ==
    LET fenceTicks == LeadingTicks(lines[i])
        closingFence == Repeat(BT, fenceTicks)
        info == SliceFrom(lines[i], fenceTicks)
        j == FindClose(lines, i + 1, closingFence)
        body == SubSeq(lines, i + 1, j - 1)
        pi == ParseInfo(info)
    IN  [block |-> IF info = OutputTok
                   THEN OutputBlock(ConcatLines(body))
                   ELSE CodeBlock(pi.lang, Join(body, <<NL>>), pi.isImage, FALSE, pi.filter),
         next |-> j + 1]

\* An image output line: ![alt](filename) with a file name.
IsImageLine(line) == HasPrefix(line, ImgOpen) /\ parseImageRef(line).filename # <<>>

\* Whether a line ends a Commentary run: a fence or an image reference.
EndsCommentary(line) == HasPrefix(line, Fence3) \/ IsImageLine(line)

\* The index of the first line at or after i that ends a Commentary run.
CommentaryEnd(lines, i) ==
    LET hits == {k \in i..Len(lines) : EndsCommentary(lines[k])}
    IN  IF hits = {} THEN Len(lines) + 1 ELSE CHOOSE k \in hits : \A m \in hits : k <= m

RECURSIVE TrimTrailingEmpty(_)
TrimTrailingEmpty(ls) ==
    IF Len(ls) > 0 /\ ls[Len(ls)] = <<>> THEN TrimTrailingEmpty(SubSeq(ls, 1, Len(ls) - 1)) ELSE ls

\* A block has been read: append it and skip one blank line after it.
Advance(lines, blocks, r) ==
    [next |-> skipSeparator(lines, r.next), blocks |-> Append(blocks, r.block)]

\* The same branch without the step past the line.
ParseImageStay(i, ref) == [block |-> ImageOutputBlock(ref.alt, ref.filename), next |-> i]

\* The image-reference branch of Parse.
ParseImage(i, ref) == [block |-> ImageOutputBlock(ref.alt, ref.filename), next |-> i + 1]

\* The Commentary branch of Parse: the lines i..j-1, without trailing
\* empty lines, joined by newlines; nothing is appended when no line is left.
ParseCommentary(blocks, textLines, j) ==
    [next |-> j,
     blocks |-> IF Len(textLines) > 0
                THEN Append(blocks, CommentaryBlock(Join(textLines, <<NL>>)))
                ELSE blocks]

\* The end of the Commentary run that starts at line i.
CommentaryRun(lines, blocks, i, j) ==
    ParseCommentary(blocks, TrimTrailingEmpty(SubSeq(lines, i, j - 1)), j)

\* One iteration of the main loop of Parse, at line i.
ParseStep(lines, i, blocks) ==
    IF Len(blocks) = 0 /\ HasPrefix(lines[i], HashSp)
    THEN Advance(lines, blocks, ParseTitle(lines, i))
    ELSE IF HasPrefix(lines[i], Fence3)
    THEN Advance(lines, blocks, ParseFence(lines, i))
    ELSE IF IsImageLine(lines[i])
    THEN Advance(lines, blocks, ParseImage(i, parseImageRef(lines[i])))
    ELSE CommentaryRun(lines, blocks, i, CommentaryEnd(lines, i))

RECURSIVE ParseLoop(_, _, _)
\* The main loop of Parse, continued from the result of an iteration.
ParseNext(lines, st) == ParseLoop(lines, st.next, st.blocks)

\* The main loop of Parse.
ParseLoop(lines, i, blocks) ==
    IF i > Len(lines) THEN blocks ELSE ParseNext(lines, ParseStep(lines, i, blocks))

\* Parse: the blocks of a text, or the scanner's error.
Parse(text) ==
    IF ScannerErr(text) THEN [err |-> TRUE, blocks |-> <<>>]
    ELSE [err |-> FALSE, blocks |-> ParseLoop(ScanLines(text), 1, <<>>)]

(***************************************************************************)
(* The writer.                                                             *)
(***************************************************************************)
RECURSIVE MaxRun(_)
\* The longest run of backticks that starts a line among the given lines.
MaxRun(ls) ==
    IF Len(ls) = 0 THEN 0
    ELSE LET run == LeadingTicks(Head(ls))
             rest == MaxRun(Tail(ls))
         IN  IF run > rest THEN run ELSE rest

\* fenceFor: a fence of at least 3 backticks, longer than any run of
\* backticks at the start of a line of the content.
fenceFor(content) ==
    LET maxRun == MaxRun(Split(content))
    IN  Repeat(BT, IF maxRun >= 3 THEN maxRun + 1 ELSE 3)

writeBlock(b) ==
    CASE b.type = "title" ->
            LET dateline == IF b.Version # <<>> THEN b.Timestamp \o ByShowboat \o b.Version
                            ELSE b.Timestamp
            IN  HashSp \o b.Title \o <<NL, NL, Star>> \o dateline \o <<Star, NL>>
      [] b.type = "commentary" -> b.Text \o <<NL>>
      [] b.type = "code" ->
            LET lang == IF b.IsImage THEN b.Lang \o ImageSfx
                        ELSE IF b.IsServer THEN b.Lang \o ServerSfx
                        ELSE b.Lang
            IN  Fence3 \o lang \o <<NL>> \o b.Code \o <<NL>> \o Fence3 \o <<NL>>
      [] b.type = "output" ->
            LET fence == fenceFor(b.Content)
            IN  fence \o OutputTok \o <<NL>> \o b.Content \o fence \o <<NL>>
      [] b.type = "output-image" ->
            ImgOpen \o b.AltText \o ImgMid \o b.Filename \o ImgClose \o <<NL>>

RECURSIVE Write(_)
\* Write: the blocks in order, one blank line between two blocks.
Write(blocks) ==
    IF Len(blocks) = 0 THEN <<>>
    ELSE IF Len(blocks) = 1 THEN writeBlock(blocks[1])
    ELSE writeBlock(blocks[1]) \o <<NL>> \o Write(Tail(blocks))

(***************************************************************************)
(* Bounds and input sets.                                                  *)
(***************************************************************************)
\* The longest Output content enumerated exhaustively.
MaxLen == 4
\* The most blocks in an enumerated block sequence.
MaxBlocksIn == 2
\* The most lines in an enumerated raw text.
MaxLines == 3
\* The most stages of one parse/write pipeline.
MaxTrail == 4

RECURSIVE SeqsUpTo(_, _)
\* All sequences over S of length at most n.
SeqsUpTo(S, n) ==
    IF n = 0 THEN {<<>>}
    ELSE LET shorter == SeqsUpTo(S, n - 1)
         IN  shorter \cup {Append(q, x) : q \in shorter, x \in S}

RECURSIVE Flatten(_)
Flatten(ls) == IF Len(ls) = 0 THEN <<>> ELSE Head(ls) \o Flatten(Tail(ls))

A1 == <<"a">>
ShLang == <<"s", "h">>

\* Output contents: every string over a backtick, a letter and a newline.
Contents == SeqsUpTo({BT, "a", NL}, MaxLen)

\* The blocks that enumerated block sequences are made of.
BlockVocab ==
    { TitleBlock(<<"T">>, <<"Z">>, <<>>, <<>>),
      TitleBlock(<<"T">>, <<"Z">>, <<"v">>, <<>>),
      CommentaryBlock(A1),
      CommentaryBlock(<<"a", NL, NL, "b">>),
      CodeBlock(ShLang, A1, FALSE, FALSE, <<>>),
      CodeBlock(ShLang, A1, TRUE, FALSE, <<>>),
      OutputBlock(<<"a", NL>>),
      OutputBlock(<<BT, BT, BT, NL>>),
      OutputBlock(<<>>),
      ImageOutputBlock(A1, <<"f", ".", "p">>) }

BlockInputs ==
    SeqsUpTo(BlockVocab, MaxBlocksIn) \cup {<<OutputBlock(c)>> : c \in Contents}

\* The lines that enumerated raw texts are made of.
LineVocab ==
    { <<>>, A1, HashSp \o <<"T">>, <<Star, "Z", Star>>,
      Fence3, Fence3 \o <<BT>>, Fence3 \o OutputTok, Fence3 \o <<BT>> \o ShLang,
      Fence3 \o ShLang, ImgOpen \o A1 \o ImgMid \o A1 \o ImgClose }

RawTexts == {Flatten([k \in 1..Len(ls) |-> ls[k] \o <<NL>>]) : ls \in SeqsUpTo(LineVocab, MaxLines)}

(***************************************************************************)
(* State.                                                                  *)
(***************************************************************************)
VARIABLES
    trail,      \* the stages of a parse/write pipeline: blocks, text, blocks, ...
    fs,         \* the file system: path -> [exists, data]
    images,     \* the image files copied next to the document
    nops,       \* the number of operations called so far
    last,       \* the most recent document operation and its effect
    prev,       \* the document operation before that
    initTitle,  \* the title given to the Init that created the document
    opsUsed,    \* the operations that have changed the document
    vpc,        \* VerifyWithPort: "idle", "loop" or "done"
    vargs,      \* VerifyWithPort: its arguments outputFile and waitPort
    vblocks,    \* VerifyWithPort: blocks
    vi,         \* VerifyWithPort: the loop index i
    diffs,      \* VerifyWithPort: diffs
    servers,    \* VerifyWithPort: servers, as indices into procs
    procs,      \* the server processes started, each [port, alive]
    ran,        \* VerifyWithPort: the blocks executed so far, with their PORT
    port,       \* VerifyWithPort: port
    vres        \* VerifyWithPort: what it returned

rtVars == <<trail>>
docVars == <<fs, images, nops, last, prev, initTitle, opsUsed>>
verVars == <<vpc, vargs, vblocks, vi, diffs, servers, procs, ran, port, vres>>
vars == <<trail, fs, images, nops, last, prev, initTitle, opsUsed,
          vpc, vargs, vblocks, vi, diffs, servers, procs, ran, port, vres>>

(***************************************************************************)
(* The file system and the state before any command has run.               *)
(***************************************************************************)
Doc == "doc"
Out == "out"
Paths == {Doc, Out}

NoFile == [exists |-> FALSE, data |-> <<>>]
FileOf(data) == [exists |-> TRUE, data |-> data]

\* What a command returned beside its error: Exec's output and exit code.
NoRet == [output |-> <<>>, exitCode |-> 0, err |-> FALSE]

\* The history of a command: its name, whether it succeeded, the parsed
\* document before and after, the blocks it meant to append, how its final
\* write ended ("none" when it did not write), what it returned and the
\* files as they were before it.
NoOp ==
    [op |-> "none", ok |-> FALSE, before |-> <<>>, after |-> <<>>, added |-> <<>>,
     write |-> "none", ret |-> NoRet, fs |-> [p \in Paths |-> NoFile]]
\* What VerifyWithPort returned: the diffs, whether with an error, and at
\* which step the error arose.
NoRes == [err |-> FALSE, diffs |-> <<>>, why |-> ""]
Failed(why) == [err |-> TRUE, diffs |-> <<>>, why |-> why]
NoArgs == [outputFile |-> "", waitPort |-> 0]

DocIdle ==
    /\ fs = [p \in Paths |-> NoFile]
    /\ images = {}
    /\ nops = 0
    /\ last = NoOp
    /\ prev = NoOp
    /\ initTitle = [set |-> FALSE, title |-> <<>>]
    /\ opsUsed = {}

VerIdle ==
    /\ vpc = "idle"
    /\ vargs = NoArgs
    /\ vblocks = <<>>
    /\ vi = 0
    /\ diffs = <<>>
    /\ servers = <<>>
    /\ procs = <<>>
    /\ ran = <<>>
    /\ port = 0
    /\ vres = NoRes

(***************************************************************************)
(* The parse/write pipeline: Write and Parse applied in alternation to an  *)
(* enumerated block sequence or raw text.                                  *)
(***************************************************************************)
Stage(kind, val) == [kind |-> kind, val |-> val]

InitRT ==
    /\ trail \in {<<Stage("blocks", b)>> : b \in BlockInputs}
                 \cup {<<Stage("text", t)>> : t \in RawTexts}
    /\ DocIdle
    /\ VerIdle

\* markdown.Write applied to the blocks at the end of the trail.
RTWrite ==
    /\ Len(trail) < MaxTrail
    /\ trail[Len(trail)].kind = "blocks"
    /\ trail' = Append(trail, Stage("text", Write(trail[Len(trail)].val)))
    /\ UNCHANGED <<docVars, verVars>>

\* markdown.Parse applied to the text at the end of the trail.
RTParse ==
    /\ Len(trail) < MaxTrail
    /\ trail[Len(trail)].kind = "text"
    /\ LET r == Parse(trail[Len(trail)].val)
       IN  trail' = Append(trail, IF r.err THEN Stage("error", <<>>) ELSE Stage("blocks", r.blocks))
    /\ UNCHANGED <<docVars, verVars>>

NextRT == RTWrite \/ RTParse

SpecRT == InitRT /\ [][NextRT]_vars

(***************************************************************************)
(* Claims about the parser and the writer, over SpecRT.                    *)
(***************************************************************************)
\* C1: byte round trip.  Every text T that Write emitted for a block
\* sequence satisfies Write(Parse(T)) = T, byte for byte.
C1_ByteRoundTrip ==
    \A k \in 2..Len(trail) :
        (trail[k].kind = "text" /\ k + 2 <= Len(trail))
            => (trail[k + 2].kind = "text" /\ trail[k + 2].val = trail[k].val)

\* C2: structural inverse.  Every block sequence B that Parse returned
\* satisfies Parse(Write(B)) = B.
C2_StructuralInverse ==
    \A k \in 2..Len(trail) :
        (trail[k].kind = "blocks" /\ k + 2 <= Len(trail))
            => (trail[k + 2].kind = "blocks" /\ trail[k + 2].val = trail[k].val)

\* C3: fence-width law.  For every string S, Parse(Write([Output{S}]))
\* is exactly one Output block whose content is S.
C3_FenceWidthLaw ==
    (/\ Len(trail) >= 3
     /\ trail[1].kind = "blocks"
     /\ Len(trail[1].val) = 1
     /\ trail[1].val[1].type = "output")
        => (trail[3].kind = "blocks" /\ trail[3].val = trail[1].val)

\* The first line of the text that starts with three backticks opens a
\* fence (nothing before it can), and no later line is its closing fence.
FirstFenceUnclosed(text) ==
    LET lines == ScanLines(text)
        opens == {k \in 1..Len(lines) : HasPrefix(lines[k], Fence3)}
    IN  /\ opens # {}
        /\ LET i == CHOOSE k \in opens : \A m \in opens : k <= m
           IN  \A k \in (i + 1)..Len(lines) : lines[k] # Repeat(BT, LeadingTicks(lines[i]))

\* C6: Parse returns an error, and no block sequence, for a text in which
\* a fence is opened and not closed before the end of input.
C6_UnterminatedFenceIsError ==
    \A k \in 1..Len(trail) :
        (trail[k].kind = "text" /\ k + 1 <= Len(trail) /\ FirstFenceUnclosed(trail[k].val))
            => trail[k + 1].kind = "error"

(***************************************************************************)
(* The process runner and the image copier.                                *)
(***************************************************************************)
\* The most document operations in one run.
MaxOps == 4

NoLang == <<"n", "o">>
BashLang == <<"b", "a", "s", "h">>
CodeEcho == <<"e">>
CodePrintf == <<"p">>
CodeFalse == <<"q">>
CodeTicks == Fence3
ScriptGood == <<"i">>
ScriptBad == <<"j">>
PngExt == <<".", "p", "n", "g">>
SrcImage == <<"s">> \o PngExt

\* What the operating system does with `lang -c code`: whether the
\* interpreter starts, and what the process prints and exits with.  With
\* a fixed environment this is a function of lang and code.
Interp(lang, code) ==
    IF lang \notin {ShLang, BashLang} THEN [started |-> FALSE, out |-> <<>>, exit |-> 0]
    ELSE CASE code = CodeEcho -> [started |-> TRUE, out |-> <<"a", NL>>, exit |-> 0]
           [] code = CodePrintf -> [started |-> TRUE, out |-> <<"a">>, exit |-> 0]
           [] code = CodeFalse -> [started |-> TRUE, out |-> <<>>, exit |-> 1]
           [] code = CodeTicks -> [started |-> TRUE, out |-> <<"x", NL>>, exit |-> 2]
           [] code = ScriptGood -> [started |-> TRUE, out |-> SrcImage \o <<NL>>, exit |-> 0]
           [] code = ScriptBad -> [started |-> TRUE, out |-> <<"x", NL>>, exit |-> 0]
           [] OTHER -> [started |-> TRUE, out |-> <<>>, exit |-> 127]

\* exec.Run: a non-zero exit is not an error; failing to start is.
Run(lang, code) ==
    LET r == Interp(lang, code)
    IN  IF r.started THEN [output |-> r.out, exitCode |-> r.exit, err |-> FALSE]
        ELSE [output |-> <<>>, exitCode |-> 1, err |-> TRUE]

\* exec.RunWithEnv: Run with extra environment variables.
RunWithEnv(lang, code, env) == Run(lang, code)

IsSpace(c) == c \in {" ", NL, CR, "\t"}

\* strings.TrimSpace.
TrimSpace(s) ==
    LET keep == {k \in 1..Len(s) : ~IsSpace(s[k])}
    IN  IF keep = {} THEN <<>>
        ELSE LET lo == CHOOSE k \in keep : \A m \in keep : k <= m
                 hi == CHOOSE k \in keep : \A m \in keep : k >= m
             IN  SubSeq(s, lo, hi)

\* filepath.Ext: the suffix that starts at the last dot, or nothing.
PathExt(s) ==
    LET dots == {k \in 1..Len(s) : s[k] = "."}
    IN  IF dots = {} THEN <<>>
        ELSE SubSeq(s, CHOOSE k \in dots : \A m \in dots : k >= m, Len(s))

\* The image files that exist, and the recognized extensions.
SrcImages == {SrcImage}
validImageExts ==
    {PngExt, <<".", "j", "p", "g">>, <<".", "j", "p", "e", "g">>, <<".", "g", "i", "f">>,
     <<".", "s", "v", "g">>, <<".", "w", "e", "b", "p">>}

\* The identifiers uuid.New() can give (8 hex digits in the code, one
\* digit here) and the date of the copy.
ImageIds == {<<"1">>, <<"2">>}
Today == <<"d">>

\* exec.CopyImage: the possible results of copying the image at srcPath.
CopyImage(srcPath) ==
    IF srcPath \notin SrcImages THEN {[err |-> TRUE, filename |-> <<>>]}
    ELSE IF PathExt(srcPath) \notin validImageExts THEN {[err |-> TRUE, filename |-> <<>>]}
    ELSE {[err |-> FALSE, filename |-> id \o <<"-">> \o Today \o PathExt(srcPath)] : id \in ImageIds}

\* exec.RunImage: run the script with bash and copy the image whose path
\* is the last line it printed.
RunImage(script) ==
    LET r == Run(BashLang, script)
        lines == Split(TrimSpace(r.output))
    IN  IF r.err THEN {[err |-> TRUE, filename |-> <<>>]}
        ELSE CopyImage(TrimSpace(lines[Len(lines)]))

(***************************************************************************)
(* The document operations.                                                *)
(***************************************************************************)
\* time.Now().UTC().Format(time.RFC3339)
Now == <<"Z">>

Titles == {<<"T">>}
NoteTexts ==
    { A1, <<"b">>, <<>>, ImgOpen \o A1 \o ImgMid \o A1 \o ImgClose, Fence3 \o OutputTok }
ExecArgs ==
    {<<ShLang, c>> : c \in {CodeEcho, CodePrintf, CodeFalse, CodeTicks}} \cup {<<NoLang, CodeEcho>>}
ImageScripts == {ScriptGood, ScriptBad}

\* readBlocks: open the file and parse it.
readBlocks(file) ==
    IF ~fs[file].exists THEN [err |-> TRUE, blocks |-> <<>>]
    ELSE Parse(fs[file].data)

\* writeBlocks: create or truncate the file and write the blocks to it.
writeBlocks(file, blocks) == [fs EXCEPT ![file] = FileOf(Write(blocks))]

\* How a write of a file can end: completely; with os.Create failing, the
\* file left as it was; or with os.Create truncating the file and the
\* writer failing, here at its first byte.
WriteOutcomes == {"ok", "nocreate", "partial"}

\* The same outcomes with the document as the file written, whatever the
\* path given.
writeResultToDoc(file, blocks, w) ==
    CASE w = "ok" -> writeBlocks(Doc, blocks)
      [] w = "nocreate" -> fs
      [] w = "partial" -> [fs EXCEPT ![Doc] = FileOf(<<>>)]

\* The files after writeBlocks has ended in the way w.
writeResult(file, blocks, w) ==
    CASE w = "ok" -> writeBlocks(file, blocks)
      [] w = "nocreate" -> fs
      [] w = "partial" -> [fs EXCEPT ![file] = FileOf(<<>>)]

\* The parsed block sequence of a file, for the history variables.
BlocksOf(f) == IF f.exists THEN Parse(f.data).blocks ELSE <<>>

\* History of the operation just performed; a document operation also
\* forgets the previous verification.
LogOp(op, ok, added, w, ret) ==
    /\ last' = [op |-> op, ok |-> ok, before |-> BlocksOf(fs[Doc]),
                after |-> BlocksOf(fs'[Doc]), added |-> added,
                write |-> w, ret |-> ret, fs |-> fs]
    /\ prev' = last
    /\ nops' = nops + 1
    /\ opsUsed' = IF ok THEN opsUsed \cup {op} ELSE opsUsed
    /\ vpc' = "idle"
    /\ vargs' = NoArgs
    /\ vblocks' = <<>>
    /\ vi' = 0
    /\ diffs' = <<>>
    /\ servers' = <<>>
    /\ procs' = <<>>
    /\ ran' = <<>>
    /\ port' = 0
    /\ vres' = NoRes

\* The same for a command that notifies nobody.
Log(op, ok, added, w, ret) ==
    /\ LogOp(op, ok, added, w, ret)
    /\ UNCHANGED trail

CanOperate == vpc # "loop" /\ nops < MaxOps

\* Where a command ended: before reading the document ("pre"), at the read,
\* at the final write, or with success.
Stages == {"pre", "read", "write", "ok"}

StageOf(pre, rb, w) ==
    IF ~pre THEN "pre" ELSE IF rb.err THEN "read" ELSE IF w # "ok" THEN "write" ELSE "ok"

\* The return of a command that returns only an error.
ErrorOnly == [st \in Stages |-> [NoRet EXCEPT !.err = (st # "ok")]]

\* The same end with the write done whenever the file could be read.
AppendBlocksAlways(op, ok, rb, added, w, rets) ==
    /\ fs' = IF ~rb.err THEN writeResult(Doc, rb.blocks \o added, w) ELSE fs
    /\ Log(op, ok /\ ~rb.err /\ w = "ok",
           IF ok /\ ~rb.err THEN added ELSE <<>>,
           IF ok /\ ~rb.err THEN w ELSE "none",
           rets[StageOf(ok, rb, w)])

\* The common end of note, exec and image: when the steps before it
\* succeeded (ok) and the file was read, append the blocks and write the
\* file back; otherwise return the error and leave the file alone.
AppendBlocks(op, ok, rb, added, w, rets) ==
    /\ fs' = IF ok /\ ~rb.err THEN writeResult(Doc, rb.blocks \o added, w) ELSE fs
    /\ Log(op, ok /\ ~rb.err /\ w = "ok",
           IF ok /\ ~rb.err THEN added ELSE <<>>,
           IF ok /\ ~rb.err THEN w ELSE "none",
           rets[StageOf(ok, rb, w)])

\* The blocks without the timestamp.
InitBlocksNoStamp(title) == <<TitleBlock(title, <<>>, <<>>, <<>>)>>

\* The blocks Init writes: one Title with the title and the time.
InitBlocks(title) == <<TitleBlock(title, Now, <<>>, <<>>)>>

\* cmd.Init
InitCmd(title, w) ==
    /\ CanOperate
    /\ fs' = IF fs[Doc].exists THEN fs ELSE writeResult(Doc, InitBlocks(title), w)
    /\ initTitle' = IF fs[Doc].exists \/ w # "ok" THEN initTitle
                    ELSE [set |-> TRUE, title |-> title]
    /\ Log("init", ~fs[Doc].exists /\ w = "ok", <<>>,
           IF fs[Doc].exists THEN "none" ELSE w,
           [NoRet EXCEPT !.err = (fs[Doc].exists \/ w # "ok")])
    /\ UNCHANGED images

\* cmd.Note
Note(text, w) ==
    /\ CanOperate
    /\ AppendBlocks("note", TRUE, readBlocks(Doc), <<CommentaryBlock(text)>>, w, ErrorOnly)
    /\ UNCHANGED <<images, initTitle>>

\* What cmd.Exec returns: ("", 1, err) when the file is missing, the exit
\* code of Run with no output when Run or the read fails, and the output
\* and the exit code when the write fails or all succeeds.
ExecReturns(r) ==
    [st \in Stages |->
        CASE st = "pre" -> [output |-> <<>>, err |-> TRUE,
                            exitCode |-> IF fs[Doc].exists THEN r.exitCode ELSE 1]
          [] st = "read" -> [output |-> <<>>, exitCode |-> r.exitCode, err |-> TRUE]
          [] st = "write" -> [output |-> r.output, exitCode |-> r.exitCode, err |-> TRUE]
          [] st = "ok" -> [output |-> r.output, exitCode |-> r.exitCode, err |-> FALSE]]

\* cmd.Exec, once the code has run with result r.
ExecResult(lang, code, r, w) ==
    AppendBlocks("exec", fs[Doc].exists /\ ~r.err, readBlocks(Doc),
                 <<CodeBlock(lang, code, FALSE, FALSE, <<>>), OutputBlock(r.output)>>,
                 w, ExecReturns(r))

\* cmd.Exec
Exec(lang, code, w) ==
    /\ CanOperate
    /\ ExecResult(lang, code, Run(lang, code), w)
    /\ UNCHANGED <<images, initTitle>>

\* cmd.Image: the alt text is the file name without its extension.
Image(script, w) ==
    /\ CanOperate
    /\ \E ri \in RunImage(script) :
         /\ images' = IF fs[Doc].exists /\ ~ri.err THEN images \cup {ri.filename} ELSE images
         /\ AppendBlocks("image", fs[Doc].exists /\ ~ri.err, readBlocks(Doc),
                         <<CodeBlock(BashLang, script, TRUE, FALSE, <<>>),
                           ImageOutputBlock(TrimSuffix(ri.filename, PathExt(ri.filename)),
                                            ri.filename)>>,
                         w, ErrorOnly)
    /\ UNCHANGED initTitle

\* The blocks Pop keeps.
PopBlocks(blocks) ==
    LET n == Len(blocks)
    IN  IF blocks[n].type \in {"output", "output-image"}
        THEN (IF n >= 2 THEN SubSeq(blocks, 1, n - 2) ELSE SubSeq(blocks, 1, n - 1))
        ELSE SubSeq(blocks, 1, n - 1)

\* The test without the title rule.
CanPopTitle(rb) == ~rb.err /\ Len(rb.blocks) # 0

\* Whether Pop has something to remove from what it read.
CanPop(rb) ==
    /\ ~rb.err
    /\ Len(rb.blocks) # 0
    /\ ~(Len(rb.blocks) = 1 /\ rb.blocks[1].type = "title")

\* cmd.Pop, once the file has been read.
PopFrom(rb, w) ==
    /\ fs' = IF CanPop(rb) THEN writeResult(Doc, PopBlocks(rb.blocks), w) ELSE fs
    /\ Log("pop", CanPop(rb) /\ w = "ok", <<>>,
           IF CanPop(rb) THEN w ELSE "none",
           [NoRet EXCEPT !.err = ~(CanPop(rb) /\ w = "ok")])

\* cmd.Pop
Pop(w) ==
    /\ CanOperate
    /\ PopFrom(readBlocks(Doc), w)
    /\ UNCHANGED <<images, initTitle>>

(***************************************************************************)
(* The verifier.  VerifyWithPort runs as a sequence of steps, one per      *)
(* block; no document operation runs until it has returned.                *)
(***************************************************************************)
\* The most entries in an enumerated document to verify.
MaxVEntries == 2

OutputFiles == {"", Out}
WaitPorts == {0, 1}
FreePorts == {2, 3}

RECURSIVE MarkServers(_)
\* The {server} annotation of a code fence, read as the writer writes it:
\* a trailing " {server}" of the language tag sets IsServer.
MarkServers(blocks) ==
    IF Len(blocks) = 0 THEN <<>>
    ELSE LET b == Head(blocks)
             m == IF b.type = "code" /\ ~b.IsImage /\ HasSuffix(b.Lang, ServerSfx)
                  THEN [b EXCEPT !.Lang = TrimSuffix(b.Lang, ServerSfx), !.IsServer = TRUE]
                  ELSE b
         IN  <<m>> \o MarkServers(Tail(blocks))

\* The blocks that were read, with server blocks recognized.
WithServers(rb) == [err |-> rb.err, blocks |-> MarkServers(rb.blocks)]

\* readBlocks as VerifyWithPort needs it.
readBlocksServer(file) == WithServers(readBlocks(file))

\* Diff with the index of the Output block instead of the Code block.
DiffAtOutput(i, expected, actual) == [BlockIndex |-> i + 1, Expected |-> expected, Actual |-> actual]

Diff(i, expected, actual) == [BlockIndex |-> i, Expected |-> expected, Actual |-> actual]

\* The environment runWithPort adds: PORT when a port is set.
PortEnv(p) == IF p = 0 THEN <<>> ELSE <<"PORT", p>>

\* The environment RunServer adds: always PORT.
ServerEnv(p) == <<"PORT", p>>

\* runWithPort: PORT is put in the environment when a port is set.
runWithPort(lang, code, p) ==
    IF p = 0 THEN Run(lang, code) ELSE RunWithEnv(lang, code, PortEnv(p))

\* A block that was executed: its index, whether it was started as a
\* server, and what was added to its environment.
Started(i, server, env) == [block |-> i, server |-> server, env |-> env]

\* A port asked for at every server block.
NeedsPortAlways(p) == TRUE

\* A server block assigns a port if none is set.
NeedsPort(p) == p = 0

\* No process stopped.
StopNone(ps, which) == ps

\* ServerProcess.Stop on each of the given processes.
StopAll(ps, which) ==
    [k \in 1..Len(ps) |-> IF k \in which THEN [ps[k] EXCEPT !.alive = FALSE] ELSE ps[k]]

Range(f) == {f[k] : k \in DOMAIN f}

\* A return of VerifyWithPort: the deferred function stops every server
\* of the servers slice.
VerifyReturn(res, ps) ==
    /\ vpc' = "done"
    /\ vres' = res
    /\ procs' = StopAll(ps, Range(servers))

\* VerifyWithPort returns the error of readBlocks, or enters the loop.
VerifyRead(rb) ==
    /\ vblocks' = rb.blocks
    /\ vpc' = IF rb.err THEN "done" ELSE "loop"
    /\ vres' = IF rb.err THEN Failed("read") ELSE NoRes

\* The entry of VerifyWithPort, up to the loop.
VerifyStart(outputFile, waitPort) ==
    /\ CanOperate
    /\ nops' = nops + 1
    /\ last' = [NoOp EXCEPT !.op = "verify", !.fs = fs]
    /\ prev' = last
    /\ vargs' = [outputFile |-> outputFile, waitPort |-> waitPort]
    /\ VerifyRead(readBlocksServer(Doc))
    /\ vi' = 0
    /\ diffs' = <<>>
    /\ servers' = <<>>
    /\ procs' = <<>>
    /\ ran' = <<>>
    /\ port' = waitPort
    /\ UNCHANGED <<trail, fs, images, initTitle, opsUsed>>

InLoop == vpc = "loop" /\ vi < Len(vblocks)

\* The block the loop is at (the code's index i is 0-based).
CurBlock == vblocks[vi + 1]

\* Every code block, image blocks too.
ExecutableAny(b) == b.type = "code"

\* A code block that is not an image block: the loop does not skip it.
Executable(b) == IF b.type = "code" THEN ~b.IsImage ELSE FALSE

\* A block that is not a code block, or is an image block: continue.
VerifySkip ==
    /\ InLoop
    /\ ~Executable(CurBlock)
    /\ vi' = vi + 1
    /\ UNCHANGED <<trail, docVars, vpc, vargs, vblocks, diffs, servers, procs, ran, port, vres>>

\* WaitForPort: a connection to the port succeeds within the timeout when
\* a process accepts on it, the one just started (listens) or one started
\* before it on the same port and still alive.
WaitForPort(ps, p, listens) ==
    listens \/ \E k \in DOMAIN ps : ps[k].alive /\ ps[k].port = p /\ ps[k].ready

\* RunServer waits for the port only when it is given one.
WaitsForPort(waitPort) == waitPort > 0

\* The process left running after the timeout.
LeaveAfterTimeout(proc) == proc

\* RunServer stops the process it started when WaitForPort times out.
StopAfterTimeout(proc) == [proc EXCEPT !.alive = FALSE]

\* A server block: assign the port if none is set, then RunServer.  A
\* process is recorded with the index of its block and with whether it
\* itself accepts connections on the port within the timeout (ready).
VerifyServer ==
    /\ InLoop
    /\ Executable(CurBlock)
    /\ CurBlock.IsServer
    /\ \E fp \in {[err |-> TRUE, port |-> 0]} \cup {[err |-> FALSE, port |-> q] : q \in FreePorts},
          ready \in BOOLEAN :
         LET needPort == NeedsPort(port)
             p == IF needPort THEN fp.port ELSE port
             started == Interp(CurBlock.Lang, CurBlock.Code).started
             proc == [port |-> p, alive |-> TRUE, block |-> vi, ready |-> ready]
         IN  IF needPort /\ fp.err
             THEN /\ VerifyReturn(Failed("port"), procs)
                  /\ UNCHANGED <<vi, servers, port, ran>>
             ELSE IF ~started
             THEN /\ VerifyReturn(Failed("start"), procs)
                  /\ port' = p
                  /\ UNCHANGED <<vi, servers, ran>>
             ELSE IF WaitsForPort(p) /\ ~WaitForPort(procs, p, ready)
             THEN /\ VerifyReturn(Failed("timeout"), Append(procs, StopAfterTimeout(proc)))
                  /\ port' = p
                  /\ ran' = Append(ran, Started(vi, TRUE, ServerEnv(p)))
                  /\ UNCHANGED <<vi, servers>>
             ELSE /\ procs' = Append(procs, proc)
                  /\ servers' = Append(servers, Len(procs) + 1)
                  /\ port' = p
                  /\ ran' = Append(ran, Started(vi, TRUE, ServerEnv(p)))
                  /\ vi' = vi + 1
                  /\ UNCHANGED <<vpc, vres>>
    /\ UNCHANGED <<trail, docVars, vargs, vblocks, diffs>>

\* Update the Output after block i for the output copy.
Refresh(blocks, i, output) == [blocks EXCEPT ![i + 2] = OutputBlock(output)]

\* A normal code block: run it and compare with the Output that follows.
VerifyExec ==
    /\ InLoop
    /\ Executable(CurBlock)
    /\ ~CurBlock.IsServer
    /\ LET r == runWithPort(CurBlock.Lang, CurBlock.Code, port)
           hasOut == vi + 1 < Len(vblocks) /\ vblocks[vi + 2].type = "output"
           differs == hasOut /\ vblocks[vi + 2].Content # r.output
       IN  IF r.err
           THEN /\ VerifyReturn(Failed("exec"), procs)
                /\ UNCHANGED <<vi, diffs, vblocks, ran>>
           ELSE /\ diffs' = IF differs
                            THEN Append(diffs, Diff(vi, vblocks[vi + 2].Content, r.output))
                            ELSE diffs
                /\ vblocks' = IF differs THEN Refresh(vblocks, vi, r.output) ELSE vblocks
                /\ vi' = vi + 1
                /\ ran' = Append(ran, Started(vi, FALSE, PortEnv(port)))
                /\ UNCHANGED <<vpc, vres, procs>>
    /\ UNCHANGED <<trail, docVars, vargs, servers, port>>

\* After the loop: write the output copy if asked, and return the diffs,
\* with an error when the write failed.
VerifyFinish(w) ==
    /\ vpc = "loop"
    /\ vi >= Len(vblocks)
    /\ fs' = IF vargs.outputFile # "" THEN writeResult(vargs.outputFile, vblocks, w) ELSE fs
    /\ VerifyReturn([err |-> vargs.outputFile # "" /\ w # "ok", diffs |-> diffs,
                     why |-> IF vargs.outputFile # "" /\ w # "ok" THEN "write" ELSE ""],
                    procs)
    /\ UNCHANGED <<trail, images, nops, last, prev, initTitle, opsUsed,
                   vargs, vblocks, vi, diffs, servers, ran, port>>

(***************************************************************************)
(* The specifications.                                                     *)
(***************************************************************************)
Init ==
    /\ trail = <<>>
    /\ DocIdle
    /\ VerIdle

Next ==
    \/ \E title \in Titles : InitCmd(title, "ok")
    \/ \E text \in NoteTexts : Note(text, "ok")
    \/ \E a \in ExecArgs : Exec(a[1], a[2], "ok")
    \/ \E script \in ImageScripts : Image(script, "ok")
    \/ Pop("ok")
    \/ \E o \in OutputFiles : VerifyStart(o, 0)
    \/ VerifySkip
    \/ VerifyExec
    \/ VerifyFinish("ok")

Spec == Init /\ [][Next]_vars

\* The most commands in a run in which writes can fail.
MaxIOOps == 3

\* The titles given to init in such a run: also the empty argument.
TitlesIO == Titles \cup {<<>>}

\* No document yet, and room for MaxIOOps commands.
InitIO ==
    /\ trail = <<>>
    /\ fs = [p \in Paths |-> NoFile]
    /\ images = {}
    /\ nops = MaxOps - MaxIOOps
    /\ last = NoOp
    /\ prev = NoOp
    /\ initTitle = [set |-> FALSE, title |-> <<>>]
    /\ opsUsed = {}
    /\ VerIdle

\* The document commands with every way their final write can end.
NextIO ==
    \E w \in WriteOutcomes :
        \/ \E title \in TitlesIO : InitCmd(title, w)
        \/ \E text \in NoteTexts : Note(text, w)
        \/ \E a \in ExecArgs : Exec(a[1], a[2], w)
        \/ \E script \in ImageScripts : Image(script, w)
        \/ Pop(w)

SpecIO == InitIO /\ [][NextIO]_vars

\* The entries of the enumerated documents to verify: runs of blocks as
\* the commands append them, and runs in which an Output follows a block
\* that is not compared.
VEntries ==
    LET echo == CodeBlock(ShLang, CodeEcho, FALSE, FALSE, <<>>)
        nostart == CodeBlock(NoLang, CodeEcho, FALSE, FALSE, <<>>)
        server == CodeBlock(ShLang, CodeEcho, FALSE, TRUE, <<>>)
        image == CodeBlock(BashLang, ScriptGood, TRUE, FALSE, <<>>)
        printf == CodeBlock(ShLang, CodePrintf, FALSE, FALSE, <<>>)
        same == OutputBlock(<<"a", NL>>)
        other == OutputBlock(<<"b", NL>>)
    IN  { <<CommentaryBlock(A1)>>,
          <<echo, same>>, <<echo, other>>, <<echo>>,
          <<printf, OutputBlock(<<"a">>)>>,
          <<nostart, same>>,
          <<server>>, <<server, other>>, <<server, echo>>,
          <<image, ImageOutputBlock(A1, <<"f">> \o PngExt)>>, <<image, other>> }

VerifyInputs == {Flatten(es) : es \in SeqsUpTo(VEntries, MaxVEntries)}

\* The most runs of the verifier on one enumerated document.
MaxVerifyRuns == 1

\* A document written with markdown.Write, as the verifier's tests do, by
\* operations that leave room for MaxVerifyRuns runs of the verifier.
InitVerify ==
    /\ trail = <<>>
    /\ \E b \in VerifyInputs :
         fs = [p \in Paths |-> IF p = Doc THEN FileOf(Write(b)) ELSE NoFile]
    /\ images = {}
    /\ nops = MaxOps - MaxVerifyRuns
    /\ last = NoOp
    /\ prev = NoOp
    /\ initTitle = [set |-> FALSE, title |-> <<>>]
    /\ opsUsed = {}
    /\ VerIdle

NextVerify ==
    \/ \E o \in OutputFiles, w \in WaitPorts : VerifyStart(o, w)
    \/ VerifySkip
    \/ VerifyServer
    \/ VerifyExec
    \/ \E w \in WriteOutcomes : VerifyFinish(w)

SpecVerify == InitVerify /\ [][NextVerify]_vars

(***************************************************************************)
(* Claims about the document operations, over Spec.                        *)
(***************************************************************************)
\* C4: verify determinism.  With a deterministic runner, Verify on a
\* document built by Init followed by Note and Exec operations only
\* returns no error and an empty diff list.
C4_VerifyDeterminism ==
    (vpc = "done" /\ "init" \in opsUsed /\ opsUsed \subseteq {"init", "note", "exec"})
        => (~vres.err /\ vres.diffs = <<>>)

\* C7: pop after exec.  A successful Exec immediately followed by Pop
\* leaves the parsed block sequence that the document had before Exec.
C7_PopAfterExec ==
    (prev.op = "exec" /\ prev.ok /\ last.op = "pop")
        => (last.ok /\ last.after = prev.before)

\* C8: pop after note.  A successful Note immediately followed by Pop
\* leaves the parsed block sequence that the document had before Note.
C8_PopAfterNote ==
    (prev.op = "note" /\ prev.ok /\ last.op = "pop")
        => (last.ok /\ last.after = prev.before)

\* Exactly one Title block, at index 0, with the given title.
TitleOnlyFirst(b, title) ==
    /\ Len(b) >= 1
    /\ b[1].type = "title"
    /\ b[1].Title = title
    /\ \A k \in 2..Len(b) : b[k].type # "title"

\* C9: title invariant.  Once Init has succeeded, the parsed document has
\* exactly one Title block, at index 0, carrying the title given to Init.
C9_TitleInvariant == initTitle.set => TitleOnlyFirst(BlocksOf(fs[Doc]), initTitle.title)

\* C10: append-only.  After a successful note, exec or image the parsed
\* block sequence is the previous one followed by the appended blocks.
C10_AppendOnly ==
    (last.op \in {"note", "exec", "image"} /\ last.ok)
        => last.after = last.before \o last.added

(***************************************************************************)
(* Claims about the verifier, over SpecVerify.                             *)
(***************************************************************************)
RECURSIVE MismatchesFrom(_, _)
\* The mismatches of a block sequence from 0-based index i on, in
\* increasing order: a Code block that is neither image nor server, an
\* Output right after it, and a fresh output that differs from it.
MismatchesFrom(b, i) ==
    IF i >= Len(b) THEN <<>>
    ELSE LET c == b[i + 1]
             compared == /\ c.type = "code"
                         /\ ~c.IsImage
                         /\ ~c.IsServer
                         /\ i + 1 < Len(b)
                         /\ b[i + 2].type = "output"
             fresh == Run(c.Lang, c.Code).output
         IN  (IF compared /\ b[i + 2].Content # fresh
              THEN <<[BlockIndex |-> i, Expected |-> b[i + 2].Content, Actual |-> fresh]>>
              ELSE <<>>)
             \o MismatchesFrom(b, i + 1)

\* C5: Verify collects every mismatch.  When Verify returns without
\* error its diff list is exactly the mismatches of the document, one
\* entry per mismatching Code block, in increasing block index.
C5_VerifyCollectsEveryMismatch ==
    (vpc = "done" /\ ~vres.err)
        => vres.diffs = MismatchesFrom(readBlocksServer(Doc).blocks, 0)

\* Verify has returned two diffs: a first mismatch did not stop the pass.
C5_Witness == vpc = "done" /\ ~vres.err /\ Len(vres.diffs) >= 2

(***************************************************************************)
(* Claims about what the commands return and leave on disk.                *)
(***************************************************************************)
\* C11: exit-code passthrough.  When Exec has run the code and written the
\* document, it returns the captured output and the exit code of the code,
\* zero or not, with no error, and the parsed document has gained exactly
\* the Code block with the given language and code and an Output block
\* holding the captured output.
C11_ExitCodePassthrough ==
    (last.op = "exec" /\ last.write = "ok")
        => /\ Len(last.added) = 2
           /\ last.ret = [output |-> Run(last.added[1].Lang, last.added[1].Code).output,
                          exitCode |-> Run(last.added[1].Lang, last.added[1].Code).exitCode,
                          err |-> FALSE]
           /\ last.added[2] = OutputBlock(last.ret.output)
           /\ last.after = last.before \o last.added

(***************************************************************************)
(* Claims about the files and the servers of the verifier, over            *)
(* SpecVerify.                                                             *)
(***************************************************************************)
\* C12: Verify never changes the input document.  From its start to its
\* return, with diffs, without, or with an error, the document file is
\* byte-identical to what it was, and with no output path no file at all
\* is written.
C12_VerifyLeavesInput ==
    last.op = "verify"
        => /\ fs[Doc] = last.fs[Doc]
           /\ vargs.outputFile = "" => fs = last.fs

\* Verify has returned after writing the output copy.
C12_Witness ==
    /\ vpc = "done"
    /\ vargs.outputFile = Out
    /\ fs[Out] # last.fs[Out]
    /\ fs[Doc] = last.fs[Doc]

\* A Code block that Verify executes and compares: not an image block and
\* not a server block.
Compared(c) == IF c.type = "code" THEN ~c.IsImage /\ ~c.IsServer ELSE FALSE

\* The block sequence with every Output that follows an executed Code
\* block holding the fresh output of that block, the rest as it was.
Refreshed(b) ==
    [k \in 1..Len(b) |->
        IF k >= 2 /\ b[k].type = "output" /\ Compared(b[IF k >= 2 THEN k - 1 ELSE 1])
        THEN OutputBlock(Run(b[k - 1].Lang, b[k - 1].Code).output)
        ELSE b[k]]

\* C13: the output copy.  When an output path is given and Verify returns
\* without error, the file at that path reads as the whole block sequence
\* of the document in order, each Output after an executed Code block with
\* the fresh output, whether or not a diff was found.
C13_VerifyWritesRefreshedCopy ==
    (vpc = "done" /\ ~vres.err /\ vargs.outputFile # "")
        => readBlocksServer(vargs.outputFile) =
               [err |-> FALSE, blocks |-> Refreshed(readBlocksServer(Doc).blocks)]

\* C14: server cleanup.  When VerifyWithPort has returned, by any exit
\* path, no process it started is alive.
C14_ServerCleanup == vpc = "done" => \A k \in DOMAIN procs : ~procs[k].alive

\* Verify has returned an error after a server had been started.
C14_Witness == vpc = "done" /\ vres.err /\ Len(servers) >= 1

\* C15: readiness before dependents.  A block after a server block has
\* been executed or started only if the process of that server block
\* itself accepted connections on the port.
C15_ReadyBeforeDependents ==
    \A k \in DOMAIN procs : \A j \in 0..(vi - 1) :
        (j > procs[k].block /\ Executable(vblocks[j + 1])) => procs[k].ready

\* C16: bounded readiness wait.  When the port of a server block accepts
\* no connection within the timeout, VerifyWithPort returns an error and
\* no diff list, the process is stopped, the loop has not gone past the
\* server block and no file has been written.
C16_BoundedReadinessWait ==
    (vpc = "done" /\ vres.why = "timeout")
        => /\ vres.err
           /\ vres.diffs = <<>>
           /\ Len(procs) >= 1
           /\ ~procs[Len(procs)].alive
           /\ procs[Len(procs)].block = vi
           /\ fs = last.fs

\* The wait timed out after a diff had been found, with an output path.
C16_Witness ==
    /\ vpc = "done"
    /\ vres.why = "timeout"
    /\ Len(diffs) >= 1
    /\ vargs.outputFile = Out

(***************************************************************************)
(* Claims about failures of the document commands, over SpecIO.            *)
(***************************************************************************)
Mutators == {"note", "exec", "image", "pop"}

\* C17: when note, exec, image or pop fails before its final write, the
\* bytes of the document file are those before the call, and a missing
\* document is not created.
C17_FailureBeforeWrite ==
    (last.op \in Mutators /\ last.write = "none")
        => /\ last.ret.err
           /\ ~last.ok
           /\ fs[Doc] = last.fs[Doc]

\* Exec has failed to start its interpreter on an existing document.
C17_Witness ==
    /\ last.op = "exec"
    /\ last.write = "none"
    /\ last.fs[Doc].exists
    /\ Len(last.fs[Doc].data) > 0
    /\ last.ret.err

\* C18: no partial writes.  When the final write of note, exec, image or
\* pop fails, the error is returned and the file still holds the complete
\* original content.
C18_NoPartialWrites ==
    (last.op \in Mutators /\ last.write \in {"nocreate", "partial"})
        => /\ last.ret.err
           /\ fs[Doc] = last.fs[Doc]

\* A document with no blocks or with a Title as its only block.
TitleOnly(b) == Len(b) = 0 \/ (Len(b) = 1 /\ b[1].type = "title")

\* C19: Pop on a document whose only block is a Title, or that has no
\* blocks, returns an error and does not rewrite the file.
C19_PopTitleOnly ==
    (last.op = "pop" /\ TitleOnly(last.before))
        => /\ last.ret.err
           /\ last.write = "none"
           /\ fs = last.fs

\* Pop has been refused on a document that holds only its Title.
C19_Witness ==
    /\ last.op = "pop"
    /\ Len(last.before) = 1
    /\ last.before[1].type = "title"
    /\ last.ret.err

MaxProcs == 3
MaxStops == 2

\* A ServerProcess: whether its cmd is set, whether the cmd was started
\* (cmd.Process set), whether the process runs, whether Wait has been
\* called; and of the calls of Stop on it: how many, the state before the
\* latest, whether one panicked, whether one never returned.
ServerProcess(cmd, started, alive) ==
    [cmd |-> cmd, started |-> started, alive |-> alive, waited |-> FALSE,
     calls |-> 0, before |-> <<>>, panicked |-> FALSE, blocked |-> FALSE]

\* A value with no cmd, one whose cmd was never started, a started one.
ProcKinds ==
    { ServerProcess(FALSE, FALSE, FALSE),
      ServerProcess(TRUE, FALSE, FALSE),
      ServerProcess(TRUE, TRUE, TRUE) }

\* What Stop can change.
Core(s) == <<s.cmd, s.started, s.alive, s.waited>>

\* cmd.Process.Kill: the process ends; on a process that has ended it
\* returns an error, which Stop drops.  Without a process it panics.
Kill(s) ==
    IF s.cmd /\ s.started THEN [s EXCEPT !.alive = FALSE] ELSE [s EXCEPT !.panicked = TRUE]

\* cmd.Wait: returns once the process has ended (on a second call at once,
\* with an error that Stop drops).  Output goes to os.Stderr, so there is
\* no copying to wait for.
Wait(s) ==
    IF ~(s.cmd /\ s.started) THEN [s EXCEPT !.panicked = TRUE]
    ELSE IF s.alive THEN [s EXCEPT !.blocked = TRUE]
    ELSE [s EXCEPT !.waited = TRUE]

\* Stop without the kill.
StopNoKill(s) == IF s.cmd /\ s.started THEN Wait(s) ELSE s

\* ServerProcess.Stop
Stop(s) == IF s.cmd /\ s.started THEN Wait(Kill(s)) ELSE s

InitStop ==
    /\ procs \in [1..MaxProcs -> ProcKinds]
    /\ trail = <<>>
    /\ DocIdle
    /\ vpc = "idle"
    /\ vargs = NoArgs
    /\ vblocks = <<>>
    /\ vi = 0
    /\ diffs = <<>>
    /\ servers = <<>>
    /\ ran = <<>>
    /\ port = 0
    /\ vres = NoRes

\* One more call of Stop on process k.
StopCall(k) ==
    /\ procs[k].calls < MaxStops
    /\ ~procs[k].blocked
    /\ ~procs[k].panicked
    /\ procs' = [procs EXCEPT ![k] = [Stop(@) EXCEPT !.calls = @ + 1,
                                                    !.before = Core(procs[k])]]
    /\ UNCHANGED <<trail, docVars, vpc, vargs, vblocks, vi, diffs, servers, ran, port, vres>>

\* A running process ends by itself.
ProcessExits(k) ==
    /\ procs[k].alive
    /\ procs' = [procs EXCEPT ![k].alive = FALSE]
    /\ UNCHANGED <<trail, docVars, vpc, vargs, vblocks, vi, diffs, servers, ran, port, vres>>

NextStop ==
    \E k \in 1..MaxProcs :
        \/ StopCall(k)
        \/ ProcessExits(k)

SpecStop == InitStop /\ [][NextStop]_vars

\* C21: Stop is total and idempotent.  On a running process, on one that
\* has ended or was stopped, and on one never started, every call returns
\* without a panic; after the first call the process does not run, and a
\* later call changes nothing.
C21_StopIdempotentTotal ==
    \A k \in DOMAIN procs :
        procs[k].calls >= 1
            => /\ ~procs[k].panicked
               /\ ~procs[k].blocked
               /\ ~procs[k].alive
               /\ procs[k].calls >= 2 => Core(procs[k]) = procs[k].before

\* A started process stopped twice beside a never-started one stopped.
C21_Witness ==
    /\ \E k \in DOMAIN procs :
         procs[k].started /\ procs[k].calls = 2 /\ procs[k].waited
    /\ \E k \in DOMAIN procs : ~procs[k].started /\ procs[k].calls >= 1

(***************************************************************************)
(* showboat extract: the commands that would recreate a document.  The     *)
(* subcommands are spelled as the command line spells them (init, note,    *)
(* exec, image).                                                           *)
(***************************************************************************)
Sq == "'"

\* The characters for which shellQuote quotes: " \t\n'\"\\$".
QuoteChars == {" ", "\t", NL, Sq, "\"", "\\", "$"}

\* strings.ContainsAny
ContainsAny(s, chars) == \E k \in 1..Len(s) : s[k] \in chars

\* strings.ReplaceAll(s, "'", "'\\''")
EscapeQuotes(s) ==
    Flatten([k \in 1..Len(s) |-> IF s[k] = Sq THEN <<Sq, "\\", Sq, Sq>> ELSE <<s[k]>>])

\* shellQuote: the string itself when it has none of QuoteChars, or else
\* the string in single quotes with the single quotes in it escaped.
shellQuote(s) ==
    IF ~ContainsAny(s, QuoteChars) THEN s ELSE <<Sq>> \o EscapeQuotes(s) \o <<Sq>>

\* The name of a file as the text of an argument.
FileArg(file) == IF file = Doc THEN <<"d", "o", "c">> ELSE <<"o", "u", "t">>

\* A command line: the subcommand, its arguments and the words that stand
\* for them on the line.
Command(op, args, words) == [op |-> op, args |-> args, words |-> words]

\* The subcommand for every Code block.
CommandKindRun(b) ==
    CASE b.type = "title" -> "init"
      [] b.type = "commentary" -> "note"
      [] b.type = "code" -> "exec"

\* The subcommand that recreates a block.
CommandKind(b) ==
    CASE b.type = "title" -> "init"
      [] b.type = "commentary" -> "note"
      [] b.type = "code" -> IF b.IsImage THEN "image" ELSE "exec"

\* The command Extract emits for a block; the language is written as it is.
CommandFor(file, b) ==
    CASE b.type = "title" ->
           Command(CommandKind(b), <<file, b.Title>>, <<shellQuote(file), shellQuote(b.Title)>>)
      [] b.type = "commentary" ->
           Command(CommandKind(b), <<file, b.Text>>, <<shellQuote(file), shellQuote(b.Text)>>)
      [] b.type = "code" /\ b.IsImage ->
           Command(CommandKind(b), <<file, b.Code>>, <<shellQuote(file), shellQuote(b.Code)>>)
      [] b.type = "code" /\ ~b.IsImage ->
           Command(CommandKind(b), <<file, b.Lang, b.Code>>,
                   <<shellQuote(file), b.Lang, shellQuote(b.Code)>>)

\* Output and ImageOutput blocks are generated, not commands.
Emits(b) == b.type \in {"title", "commentary", "code"}

\* Extract, once the file has been parsed.
Extract(file, blocks) ==
    [k \in 1..Len(SelectSeq(blocks, Emits)) |-> CommandFor(file, SelectSeq(blocks, Emits)[k])]

\* The most commands that build the document to extract.
MaxExtractOps == 3

InitExtract ==
    /\ trail = <<>>
    /\ fs = [p \in Paths |-> NoFile]
    /\ images = {}
    /\ nops = MaxOps - MaxExtractOps
    /\ last = NoOp
    /\ prev = NoOp
    /\ initTitle = [set |-> FALSE, title |-> <<>>]
    /\ opsUsed = {}
    /\ VerIdle

\* The note texts of the documents to extract: also one with a character
\* that ends a command in the shell.
NoteTextsExtract == NoteTexts \cup {<<"a", ";">>}

\* A document command, before anything has been extracted.
Build ==
    /\ trail = <<>>
    /\ \/ \E title \in TitlesIO : InitCmd(title, "ok")
       \/ \E text \in NoteTextsExtract : Note(text, "ok")
       \/ \E a \in ExecArgs : Exec(a[1], a[2], "ok")
       \/ \E script \in ImageScripts : Image(script, "ok")
       \/ Pop("ok")

\* Extract on what was read of the document.
ExtractFrom(rb) ==
    trail' = <<IF rb.err THEN Stage("error", <<>>)
               ELSE Stage("commands", Extract(FileArg(Doc), rb.blocks))>>

\* showboat extract on the document.
ExtractCmd ==
    /\ trail = <<>>
    /\ fs[Doc].exists
    /\ ExtractFrom(readBlocks(Doc))
    /\ UNCHANGED <<docVars, verVars>>

\* The commands that were extracted.
Extracted == Len(trail) >= 1 /\ trail[1].kind = "commands"

RECURSIVE Unescape(_)
\* The text the shell reads between the single quotes that shellQuote
\* wrote: every '\'' is one single quote.
Unescape(s) ==
    IF Len(s) = 0 THEN <<>>
    ELSE IF HasPrefix(s, <<Sq, "\\", Sq, Sq>>) THEN <<Sq>> \o Unescape(SliceFrom(s, 4))
    ELSE <<Head(s)>> \o Unescape(Tail(s))

\* What the shell makes of one word of a command line: nothing of an
\* empty word, the text in the quotes of a quoted word, and the word
\* itself when no character of it is special to the shell; any other word
\* is not passed on as it stands.
ShellRead(w) ==
    IF Len(w) = 0 THEN [kind |-> "none", val |-> <<>>]
    ELSE IF Len(w) >= 2 /\ Head(w) = Sq /\ w[Len(w)] = Sq
    THEN [kind |-> "arg", val |-> Unescape(SubSeq(w, 2, Len(w) - 1))]
    ELSE IF ContainsAny(w, {BT, "|", "&", ";", "<", ">", "(", ")", "*", "?", "[", "]", "#", "!"})
    THEN [kind |-> "other", val |-> <<>>]
    ELSE [kind |-> "arg", val |-> w]

\* The arguments the command receives from the shell, and whether the
\* line ran as it was written.
ShellArgv(words) ==
    [ok |-> \A k \in 1..Len(words) : ShellRead(words[k]).kind # "other",
     argv |-> Flatten([k \in 1..Len(words) |->
                          IF ShellRead(words[k]).kind = "arg"
                          THEN <<ShellRead(words[k]).val>> ELSE <<>>])]

\* getTextArg: the argument when there is one, or else standard input,
\* which is empty in a replay.
getTextArg(argv, n) == IF Len(argv) >= n THEN argv[n] ELSE <<>>

\* The blocks a replayed note, exec or image appends, or none when the
\* command line is refused or its step before the write fails.
ReplayAdds(op, argv, ri) ==
    CASE op = "note" -> <<CommentaryBlock(getTextArg(argv, 2))>>
      [] op = "exec" ->
           IF Len(argv) < 2 \/ Run(argv[IF Len(argv) < 2 THEN 1 ELSE 2], getTextArg(argv, 3)).err
           THEN <<>>
           ELSE <<CodeBlock(argv[2], getTextArg(argv, 3), FALSE, FALSE, <<>>),
                  OutputBlock(Run(argv[2], getTextArg(argv, 3)).output)>>
      [] op = "image" ->
           IF ri.err THEN <<>>
           ELSE <<CodeBlock(BashLang, getTextArg(argv, 2), TRUE, FALSE, <<>>),
                  ImageOutputBlock(TrimSuffix(ri.filename, PathExt(ri.filename)), ri.filename)>>
      [] OTHER -> <<>>

\* The file after one replayed command: rb is what readBlocks gives for
\* it, sh what the shell made of the line.
Replayed(f, rb, op, sh, ri) ==
    IF ~sh.ok \/ Len(sh.argv) < 1 THEN f
    ELSE IF op = "init"
    THEN (IF Len(sh.argv) < 2 \/ f.exists THEN f ELSE FileOf(Write(InitBlocks(sh.argv[2]))))
    ELSE IF rb.err \/ ReplayAdds(op, sh.argv, ri) = <<>> THEN f
    ELSE FileOf(Write(rb.blocks \o ReplayAdds(op, sh.argv, ri)))

\* The next extracted command, run on a fresh file.
ReplayCmd(c, sh) ==
    \E ri \in IF c.op = "image" /\ sh.ok
              THEN RunImage(getTextArg(sh.argv, 2))
              ELSE {[err |-> TRUE, filename |-> <<>>]} :
        /\ fs' = [fs EXCEPT ![Out] = Replayed(fs[Out], readBlocks(Out), c.op, sh, ri)]
        /\ images' = IF ri.err THEN images ELSE images \cup {ri.filename}
        /\ trail' = Append(trail, Stage("ran", c.op))

\* One step of the replay of the extracted commands, in order.
Replay ==
    /\ Extracted
    /\ Len(trail) <= Len(trail[1].val)
    /\ ReplayCmd(trail[1].val[Len(trail)], ShellArgv(trail[1].val[Len(trail)].words))
    /\ UNCHANGED <<nops, last, prev, initTitle, opsUsed, verVars>>

NextExtract == Build \/ ExtractCmd \/ Replay

SpecExtract == InitExtract /\ [][NextExtract]_vars

ShellSpecial ==
    {" ", "\t", NL, Sq, "\"", "\\", "$", BT, "|", "&", ";", "<", ">", "(", ")",
     "*", "?", "[", "]", "#", "!"}

\* C24: every argument of every extracted command is safely quoted: as
\* it is only when it is not empty and has no whitespace, quote or shell
\* metacharacter, and otherwise in single quotes with every single quote
\* in it written as '\''.
C24_ArgumentsShellQuoted ==
    Extracted =>
        \A k \in 1..Len(trail[1].val) :
            \A j \in 1..Len(trail[1].val[k].args) :
                trail[1].val[k].words[j] =
                    IF trail[1].val[k].args[j] # <<>>
                       /\ ~ContainsAny(trail[1].val[k].args[j], ShellSpecial)
                    THEN trail[1].val[k].args[j]
                    ELSE <<Sq>> \o EscapeQuotes(trail[1].val[k].args[j]) \o <<Sq>>

\* A block without what a replay cannot repeat: the time of the Title and
\* the generated name of an image.
Timeless(b) ==
    CASE b.type = "title" -> [b EXCEPT !.Timestamp = <<>>]
      [] b.type = "output-image" -> [b EXCEPT !.AltText = <<>>, !.Filename = <<>>]
      [] OTHER -> b

\* The commands were all replayed.
ReplayDone == Extracted /\ Len(trail) = Len(trail[1].val) + 1

\* C23: Extract replay.  The commands extracted from a document that the
\* commands of this system built, run in order on a fresh file, give a
\* document whose parsed blocks are those of the original, apart from the
\* Title timestamp and the generated image names.
C23_ExtractReplay ==
    ReplayDone =>
        [k \in 1..Len(BlocksOf(fs[Out])) |-> Timeless(BlocksOf(fs[Out])[k])]
            = [k \in 1..Len(last.after) |-> Timeless(last.after[k])]

(***************************************************************************)
(* The parse/write pipeline on canonical texts with optional metadata.     *)
(***************************************************************************)
\* The Title of a canonical text: none, or the title line and the
\* dateline, with or without a version and a document ID line.
MetaTitles ==
    LET head == HashSp \o <<"T", NL, NL>>
        idline == DocIDOpen \o <<"i">> \o DocIDClose \o <<NL>>
    IN  { <<>>,
          head \o <<Star, "Z", Star, NL>>,
          head \o <<Star, "Z">> \o ByShowboat \o <<"v", Star, NL>>,
          head \o <<Star, "Z", Star, NL>> \o idline,
          head \o <<Star, "Z">> \o ByShowboat \o <<"v", Star, NL>> \o idline }

\* The Code block of a canonical text: none, or a fence with or without
\* the filter and image annotations, and with or without an Output.
MetaCodes ==
    LET body == <<NL, "e", NL>> \o Fence3 \o <<NL>>
        out == <<NL>> \o Fence3 \o OutputTok \o <<NL, "a", NL>> \o Fence3 \o <<NL>>
        filter == FilterOpen \o <<"f", "}">>
        codes == { Fence3 \o ShLang \o ann \o body :
                     ann \in {<<>>, ImageSfx, filter, filter \o ImageSfx} }
    IN  {<<>>} \cup codes \cup {c \o out : c \in codes}

MetaTexts ==
    { IF t = <<>> \/ c = <<>> THEN t \o c ELSE t \o <<NL>> \o c :
        t \in MetaTitles, c \in MetaCodes } \ {<<>>}

InitMeta ==
    /\ trail \in {<<Stage("text", t)>> : t \in MetaTexts}
    /\ DocIdle
    /\ VerIdle

SpecMeta == InitMeta /\ [][NextRT]_vars

\* Whether a text holds the given words.
Holds(text, words) == Index(text, words) # -1

\* C25: optional metadata round trip.  For a canonical text with a
\* version in the dateline, a document ID line, a filter or an image
\* annotation, Parse puts the version, the document ID, the filter and the
\* image flag into the block fields, the language without the
\* annotations, and Write(Parse(text)) is the text byte for byte.
C25_MetadataRoundTrip ==
    (Len(trail) >= 2 /\ trail[1].kind = "text")
        => /\ trail[2].kind = "blocks"
           /\ Holds(trail[1].val, ByShowboat) => trail[2].val[1].Version = <<"v">>
           /\ Holds(trail[1].val, DocIDOpen) => trail[2].val[1].DocumentID = <<"i">>
           /\ Holds(trail[1].val, FilterOpen) =>
                \E k \in 1..Len(trail[2].val) :
                    /\ trail[2].val[k].type = "code"
                    /\ trail[2].val[k].Filter = <<"f">>
                    /\ trail[2].val[k].Lang = ShLang
           /\ Holds(trail[1].val, ImageSfx) =>
                \E k \in 1..Len(trail[2].val) :
                    /\ trail[2].val[k].type = "code"
                    /\ trail[2].val[k].IsImage
                    /\ trail[2].val[k].Lang = ShLang
           /\ Len(trail) >= 3 => trail[3] = Stage("text", trail[1].val)

(***************************************************************************)
(* Remote notification: note, exec and image post the blocks they have     *)
(* appended to SHOWBOAT_REMOTE_URL when the document has an ID.            *)
(***************************************************************************)
\* The most commands in a run with a remote collector.
MaxRemoteOps == 1

\* SHOWBOAT_REMOTE_URL: unset, or the address of a collector.
RemoteURLs == {<<>>, <<"u">>}

\* How the request ends: a status below 400, no connection, or a status
\* of 400 or above.
RemoteOutcomes == {"ok", "refused", "status400"}

\* documentID: the DocumentID of the first block if it is a Title.
documentID(blocks) ==
    IF Len(blocks) = 0 THEN <<>>
    ELSE IF blocks[1].type # "title" THEN <<>>
    ELSE blocks[1].DocumentID

NoPost == [attempted |-> FALSE, warning |-> FALSE, uuid |-> <<>>, command |-> ""]

\* postSection: nothing when the URL is unset; otherwise one request, and
\* a warning on stderr when it fails or is answered with 400 or above.
postSection(uuid, command, url, o) ==
    IF url = <<>> THEN NoPost
    ELSE [attempted |-> TRUE, warning |-> o # "ok", uuid |-> uuid, command |-> command]

\* postImage: the same with the copied image attached.
postImage(uuid, url, o) == postSection(uuid, "image", url, o)

\* The notification of a command.
postOf(op, uuid, url, o) ==
    IF op = "image" THEN postImage(uuid, url, o) ELSE postSection(uuid, op, url, o)

\* A return that carries the failure of the notification.
AfterPostFailing(ret, post) == [ret EXCEPT !.err = post.warning]

\* What the command returns after the notification: the success it had
\* before it.
AfterPost(ret, post) == ret

\* note, exec and image from the read of the document on: the files, the
\* return and the notification when the request ends in the way o.
Appended(op, ok, rb, added, w, rets, url, o) ==
    LET wrote == ok /\ ~rb.err
        done == wrote /\ w = "ok"
        docID == documentID(rb.blocks \o added)
        post == IF done /\ docID # <<>> THEN postOf(op, docID, url, o) ELSE NoPost
    IN  [fs |-> IF wrote THEN writeResult(Doc, rb.blocks \o added, w) ELSE fs,
         ok |-> done,
         added |-> IF wrote THEN added ELSE <<>>,
         w |-> IF wrote THEN w ELSE "none",
         ret |-> IF done THEN AfterPost(rets["ok"], post) ELSE rets[StageOf(ok, rb, w)],
         post |-> post]

\* The end of a command whose request ended in the way o; results gives
\* what the command does for each way the request can end.
Notify(op, results, url, o) ==
    /\ fs' = results[o].fs
    /\ LogOp(op, results[o].ok, results[o].added, results[o].w, results[o].ret)
    /\ trail' = <<[kind |-> "post", n |-> nops + 1, url |-> url, outcome |-> o,
                   post |-> results[o].post, file |-> results[o].fs[Doc],
                   results |-> {[fs |-> results[x].fs, ret |-> results[x].ret] :
                                   x \in RemoteOutcomes}]>>

\* cmd.Note with the collector
NoteRemote(text, w, url, o) ==
    /\ CanOperate
    /\ \E rb \in {readBlocks(Doc)} :
         Notify("note",
                [x \in RemoteOutcomes |->
                    Appended("note", TRUE, rb, <<CommentaryBlock(text)>>, w, ErrorOnly, url, x)],
                url, o)
    /\ UNCHANGED <<images, initTitle>>

\* cmd.Exec with the collector
ExecRemote(lang, code, w, url, o) ==
    /\ CanOperate
    /\ \E rb \in {readBlocks(Doc)}, r \in {Run(lang, code)} :
         Notify("exec",
                [x \in RemoteOutcomes |->
                    Appended("exec", fs[Doc].exists /\ ~r.err, rb,
                             <<CodeBlock(lang, code, FALSE, FALSE, <<>>), OutputBlock(r.output)>>,
                             w, ExecReturns(r), url, x)],
                url, o)
    /\ UNCHANGED <<images, initTitle>>

\* cmd.Image with the collector
ImageRemote(script, w, url, o) ==
    /\ CanOperate
    /\ \E rb \in {readBlocks(Doc)}, ri \in RunImage(script) :
         /\ images' = IF fs[Doc].exists /\ ~ri.err THEN images \cup {ri.filename} ELSE images
         /\ Notify("image",
                   [x \in RemoteOutcomes |->
                       Appended("image", fs[Doc].exists /\ ~ri.err, rb,
                                <<CodeBlock(BashLang, script, TRUE, FALSE, <<>>),
                                  ImageOutputBlock(TrimSuffix(ri.filename, PathExt(ri.filename)),
                                                   ri.filename)>>,
                                w, ErrorOnly, url, x)],
                   url, o)
    /\ UNCHANGED initTitle

\* The documents the commands find: none, or a Title with or without a
\* document ID, alone or followed by a note.
RemoteDocs ==
    LET head == HashSp \o <<"T", NL, NL, Star, "Z", Star, NL>>
        idline == DocIDOpen \o <<"i">> \o DocIDClose \o <<NL>>
    IN  {NoFile} \cup
        {FileOf(head \o id \o rest) : id \in {<<>>, idline}, rest \in {<<>>, <<NL, "a", NL>>}}

InitRemote ==
    /\ trail = <<>>
    /\ fs \in {[p \in Paths |-> IF p = Doc THEN f ELSE NoFile] : f \in RemoteDocs}
    /\ images = {}
    /\ nops = MaxOps - MaxRemoteOps
    /\ last = NoOp
    /\ prev = NoOp
    /\ initTitle = [set |-> FALSE, title |-> <<>>]
    /\ opsUsed = {}
    /\ VerIdle

NextRemote ==
    \E w \in WriteOutcomes, url \in RemoteURLs, o \in RemoteOutcomes :
        \/ NoteRemote(A1, w, url, o)
        \/ \E code \in {CodeEcho, CodeFalse} : ExecRemote(ShLang, code, w, url, o)
        \/ \E script \in ImageScripts : ImageRemote(script, w, url, o)
        \/ Pop(w)

SpecRemote == InitRemote /\ [][NextRemote]_vars

\* Whether the last command made a request.
Posted == Len(trail) = 1 /\ trail[1].n = nops /\ trail[1].post.attempted

\* C26: remote notification never affects the primary operation.  After
\* note, exec or image the return and the files are the same for every
\* way the request can end, a request is made only after the document was
\* written completely and the command is returning success, and pop makes
\* no request.
C26_RemoteNeverAffects ==
    /\ (last.op \in {"note", "exec", "image"} /\ nops > MaxOps - MaxRemoteOps)
          => /\ Len(trail) = 1
             /\ trail[1].n = nops
             /\ Cardinality(trail[1].results) = 1
             /\ trail[1].post.attempted
                  => /\ last.write = "ok"
                     /\ ~last.ret.err
                     /\ trail[1].file = FileOf(Write(last.before \o last.added))
                     /\ fs[Doc] = trail[1].file
    /\ last.op = "pop" => ~Posted

\* A note whose request could not connect, after the document was written.
C26_Witness ==
    /\ Posted
    /\ last.op = "note"
    /\ trail[1].outcome = "refused"
    /\ trail[1].post.warning
    /\ ~last.ret.err
    /\ fs[Doc].exists

(***************************************************************************)
(* Claims about the blocks the verifier executes, over SpecVerify.         *)
(***************************************************************************)
\* The 0-based indices of the blocks that were executed, in the order of
\* their execution.
RanBlocks == [k \in DOMAIN ran |-> ran[k].block]

PortsGiven(entries) == {e.env[2] : e \in {x \in Range(entries) : x.env # <<>>}}

\* C28: within one run at most one port value is chosen, the caller's
\* when it is not zero and otherwise one that FreePort returned, and
\* that value is the PORT of every server block and of every other block
\* executed after the first server block.
C28_OnePort ==
    vpc \in {"loop", "done"} =>
        /\ Cardinality(PortsGiven(ran)) <= 1
        /\ PortsGiven(ran) \subseteq
             (IF vargs.waitPort # 0 THEN {vargs.waitPort} ELSE FreePorts)
        /\ \A k \in DOMAIN ran :
             (ran[k].server \/ \E j \in 1..(k - 1) : ran[j].server)
                => ran[k].env # <<>>
        /\ (port # 0 /\ ran # <<>>) => PortsGiven(ran) \subseteq {port}

\* A run without a port from the caller that started two server blocks and
\* then ran a normal block, all with the one port.
C28_Witness ==
    /\ vpc = "done"
    /\ vargs.waitPort = 0
    /\ Len(ran) = 3
    /\ ran[1].server
    /\ ran[2].server
    /\ ~ran[3].server
    /\ ran[3].env = <<"PORT", port>>
    /\ port \in FreePorts

\* C29: the PORT environment variable is set in the environment of every
\* block that VerifyWithPort executes, wherever the block stands
\* relative to server blocks.
C29_PortAlwaysSet ==
    \A k \in DOMAIN ran : ran[k].env # <<>>

(***************************************************************************)
(* The main loop of Parse, one iteration at a time.                        *)
(***************************************************************************)
\* The lines of the texts to parse: those of the raw texts and a document
\* ID line.
ParseLineVocab == LineVocab \cup {DocIDOpen \o <<"i">> \o DocIDClose}

ParseTexts ==
    {Flatten([k \in 1..Len(ls) |-> ls[k] \o <<NL>>]) : ls \in SeqsUpTo(ParseLineVocab, MaxLines)}

\* Parse after the scanner: the lines, the index i of the loop (1-based),
\* the blocks so far, the index at which the last iteration started and
\* the number of iterations.
Scanned(text) ==
    [kind |-> IF ScannerErr(text) THEN "error" ELSE "loop",
     text |-> text, lines |-> ScanLines(text), i |-> 1, blocks |-> <<>>,
     from |-> 0, iters |-> 0]

InitParse ==
    /\ trail \in {<<Scanned(t)>> : t \in ParseTexts}
    /\ DocIdle
    /\ VerIdle

\* The state of Parse after one more iteration that ended as st.
Iterated(p, st) ==
    [p EXCEPT !.i = st.next, !.blocks = st.blocks, !.from = p.i, !.iters = p.iters + 1]

\* One iteration of the main loop; an iteration past the number of lines
\* is not followed further.
ParseIter ==
    /\ trail[1].kind = "loop"
    /\ trail[1].i <= Len(trail[1].lines)
    /\ trail[1].iters <= Len(trail[1].lines)
    /\ trail' = <<Iterated(trail[1], ParseStep(trail[1].lines, trail[1].i, trail[1].blocks))>>
    /\ UNCHANGED <<docVars, verVars>>

\* The loop ends and Parse returns the blocks.
ParseReturn ==
    /\ trail[1].kind = "loop"
    /\ trail[1].i > Len(trail[1].lines)
    /\ trail' = <<[trail[1] EXCEPT !.kind = "returned"]>>
    /\ UNCHANGED <<docVars, verVars>>

NextParse == ParseIter \/ ParseReturn

SpecParse == InitParse /\ [][NextParse]_vars

\* C30: Parse is total.  Each iteration of the main loop starts at a line
\* of the input and leaves the index past that line, so the loop makes at
\* most as many iterations as there are lines; the index never passes the
\* end of the input by more than the one step past a missing closing
\* fence; and what Parse returns is the blocks the iterations built.
C30_ParseTotal ==
    trail[1].kind \in {"loop", "returned"} =>
        /\ trail[1].i \in 1..(Len(trail[1].lines) + 2)
        /\ trail[1].iters <= Len(trail[1].lines)
        /\ trail[1].iters > 0 =>
             /\ trail[1].from \in 1..Len(trail[1].lines)
             /\ trail[1].i > trail[1].from
        /\ trail[1].kind = "returned" =>
             /\ trail[1].i > Len(trail[1].lines)
             /\ trail[1].blocks = Parse(trail[1].text).blocks

\* Parse has returned from a title line followed by a blank line and a
\* fence opened on the last line.
C30_Witness ==
    /\ trail[1].kind = "returned"
    /\ trail[1].lines = <<HashSp \o <<"T">>, <<>>, Fence3>>
    /\ trail[1].iters = 2
    /\ trail[1].i = 5

====
